---- MODULE Spec2Model ----
(***************************************************************************)
(* Extent placement layer of crimson/seastore                              *)
(* (src/crimson/os/seastore/extent_placement_manager.h).                   *)
(*                                                                         *)
(* Four state machines over one set of variables:                          *)
(*   SpecWriter  one SegmentedAllocator::Writer with concurrent write()    *)
(*               calls and stop() calls, its open-segment handles, the     *)
(*               segments behind them and the logical index;               *)
(*   SpecEPM     ExtentPlacementManager::delayed_alloc_or_ool_write over   *)
(*               the ExtentAllocator interface;                            *)
(*   SpecAlloc   the same pass with every allocator a SegmentedAllocator,  *)
(*               a pool of writers, and SegmentedAllocator::stop;          *)
(*   SpecRecord  one ool_record_t driven through its interface.            *)
(* The bodies of Writer::write, _write, finish_write, _needs_roll and      *)
(* roll_segment are declared in the header but defined elsewhere; they are *)
(* modelled from the design document (section 4.2).                        *)
(***************************************************************************)
EXTENDS Integers, Sequences, FiniteSets, TLC

\* ------------------------------------------------------------ bounds
NumTasks == 2        \* concurrent write() calls on the writer
NumExtents == 3      \* extents handed to the writer / the transaction
MaxBatch == 3        \* longest batch of one write() call
MaxSegs == 3         \* segments the provider can hand out
MaxFaults == 1       \* device / index / provider failures injected
MaxStops == 2        \* stop() calls
NumAllocators == 2   \* allocators registered with the placement manager
NumWriters == 2      \* writers in the pool of one SegmentedAllocator

\* ------------------------------------------------- device parameters
BlockSize == 2       \* ool_record_t::block_size
Capacity == 8        \* Segment::get_write_capacity()
HeaderFixed == 1     \* fixed part of the record metadata
DescSize == 1        \* encoded_sizeof_bounded<extent_info_t>()
TempSeg == 0         \* segment id of a temporary (delayed) paddr
InlineSeg == -1      \* segment id of an inline (journal) paddr

Tasks == 1..NumTasks
Extents == 1..NumExtents
Segs == 1..MaxSegs
Allocators == 1..NumAllocators
Writers == 1..NumWriters
Lens == {2, 3}       \* payload lengths of the extents

VARIABLES
  \* ---- extents, cache and logical index (both machines)
  len,               \* extent -> payload length (get_bptr().length())
  paddr,             \* extent -> its physical address field (get_paddr())
  lba,               \* logical index: laddr (= extent id) -> paddr
  updCalls,          \* extent -> number of update_mapping calls for its laddr
  updArgs,           \* extent -> <<expected old, new>> of the last call
  appended,          \* extent -> the append of its record has completed
  finalAddr,         \* extent -> address assigned by ool_record_t::encode
  faults,            \* failures injected so far
  \* ---- Writer
  current_segment,   \* handle (= segment id) or 0
  open_segments,     \* sequence of handles
  allocated_to,
  rolling_segment,
  writer_guard,      \* seastar::gate: [closed, count]
  inflight_writes,   \* handle -> set of tasks with an append outstanding
  outdated,          \* handle -> BOOLEAN
  closers,           \* superseded handles with a close pending under the gate
  segState,          \* segment -> "free" | "open" | "closed"
  closeCalls,        \* segment -> number of Segment::close() calls
  nextSeg,           \* next segment the provider hands out
  appends,           \* sequence of appends issued: [seg, base, size, exts, task]
  rolls,             \* task -> number of rolls it started that replaced a segment
  nextExt,           \* next extent not yet handed to a write() call
  tPc, tBatch, tExt, tRec, tSeg, tPos, tFlush, tErr,
  stopPc, stopIdx, stopCalls,
  \* ---- ExtentPlacementManager
  epm,
  \* ---- SegmentedAllocator (the pool of writers of each allocator)
  sa,
  \* ---- ool_record_t (one record builder)
  rb

extentVars == <<len, paddr, lba, updCalls, updArgs, appended, finalAddr, faults>>
writerVars == <<current_segment, open_segments, allocated_to, rolling_segment,
                writer_guard, inflight_writes, outdated, closers, segState,
                closeCalls, nextSeg, appends, rolls, nextExt>>
taskVars == <<tPc, tBatch, tExt, tRec, tSeg, tPos, tFlush, tErr>>
stopVars == <<stopPc, stopIdx, stopCalls>>
vars == <<extentVars, writerVars, taskVars, stopVars, epm, sa, rb>>

\* ------------------------------------------------------- addresses
Addr(seg, off) == <<seg, off>>
TempAddr(e) == Addr(TempSeg, e)
InlineAddr(e) == Addr(InlineSeg, e)

\* --------------------------------------------------- ool_record_t
P2RoundUp(x, align) == ((x + align - 1) \div align) * align

RECURSIVE SumLen(_, _)
SumLen(l, s) == IF s = <<>> THEN 0 ELSE l[Head(s)] + SumLen(l, Tail(s))

\* get_encoded_record_raw_mdlength: one descriptor per extent plus the fixed part
RawMdLength(n) == HeaderFixed + n * DescSize

MdLength(n) == P2RoundUp(RawMdLength(n), BlockSize)

\* Variant: the metadata header is left out of the record length.
EncodedRecordLength_PayloadOnly(l, rec) == SumLen(l, rec)

\* get_encoded_record_length(): mdlength + dlength
EncodedRecordLength(l, rec) == MdLength(Len(rec)) + SumLen(l, rec)

\* Variant: the payload already in the batch (extent_buf_len) is left out.
WouldbeEncodedRecordLength_NoBufLen(l, rec, e) ==
  P2RoundUp(RawMdLength(Len(rec)) + DescSize, BlockSize) + l[e]

\* Variant: the header is rounded up before the new descriptor is added.
WouldbeEncodedRecordLength_RoundFirst(l, rec, e) ==
  P2RoundUp(RawMdLength(Len(rec)), BlockSize) + DescSize + SumLen(l, rec) + l[e]

\* get_wouldbe_encoded_record_length(extent)
WouldbeEncodedRecordLength(l, rec, e) ==
  P2RoundUp(RawMdLength(Len(rec)) + DescSize, BlockSize) + SumLen(l, rec) + l[e]

\* Variant: the payloads start at the base, over the metadata header.
EncodeAddr_NoHeader(l, rec, seg, base, i) ==
  Addr(seg, base + SumLen(l, SubSeq(rec, 1, i - 1)))

\* encode(): the i-th extent gets base + mdlength + sum of the payloads before it
EncodeAddr(l, rec, seg, base, i) ==
  Addr(seg, base + MdLength(Len(rec)) + SumLen(l, SubSeq(rec, 1, i - 1)))

\* ------------------------------------------------------------ Init
InitIndex ==
  /\ paddr = [e \in Extents |-> TempAddr(e)]
  /\ lba = [e \in Extents |-> TempAddr(e)]
  /\ updCalls = [e \in Extents |-> 0]
  /\ updArgs = [e \in Extents |-> <<TempAddr(e), TempAddr(e)>>]
  /\ appended = [e \in Extents |-> FALSE]
  /\ finalAddr = [e \in Extents |-> TempAddr(e)]
  /\ faults = 0

InitWriter ==
  /\ current_segment = 0
  /\ open_segments = <<>>
  /\ allocated_to = 0
  /\ rolling_segment = FALSE
  /\ writer_guard = [closed |-> FALSE, count |-> 0]
  /\ inflight_writes = [s \in Segs |-> {}]
  /\ outdated = [s \in Segs |-> FALSE]
  /\ closers = {}
  /\ segState = [s \in Segs |-> "free"]
  /\ closeCalls = [s \in Segs |-> 0]
  /\ nextSeg = 1
  /\ appends = <<>>
  /\ rolls = [k \in Tasks |-> 0]
  /\ nextExt = 1
  /\ tPc = [k \in Tasks |-> "idle"]
  /\ tBatch = [k \in Tasks |-> <<>>]
  /\ tExt = [k \in Tasks |-> <<>>]
  /\ tRec = [k \in Tasks |-> <<>>]
  /\ tSeg = [k \in Tasks |-> 0]
  /\ tPos = [k \in Tasks |-> 0]
  /\ tFlush = [k \in Tasks |-> FALSE]
  /\ tErr = [k \in Tasks |-> "none"]
  /\ stopPc = "idle"
  /\ stopIdx = 0
  /\ stopCalls = 0

EPMFresh(v) ==
  [pc |-> "start",
   valid |-> v,                                  \* extent->is_valid()
   invalid |-> 0,                                \* t.delayed_invalid_extents
   inline_list |-> <<>>,                         \* pairs <<old_addr, extent>>
   alloc_map |-> [a \in Allocators |-> <<>>],    \* allocator -> its extents
   running |-> {},                               \* calls outstanding
   completed |-> {},                             \* calls that succeeded
   written |-> {},                               \* extents an allocator wrote
   overlapped |-> FALSE,                         \* two calls were outstanding at once
   ipos |-> 1,                                   \* next inline pair
   err |-> "none"]

InitEPMIdle == epm = EPMFresh([e \in Extents |-> TRUE])

\* The pools of writers, before any call.
SAFresh ==
  [alloc_map |-> [a \in Allocators |-> [w \in Writers |-> <<>>]],  \* per call
   wpc |-> [a \in Allocators |-> [w \in Writers |-> "idle"]],      \* writer->write
   overlapped |-> FALSE,                 \* two writes of one call outstanding
   updBy |-> [e \in Extents |-> {}],     \* writers that updated the index entry
   stopPc |-> [a \in Allocators |-> "idle"],   \* SegmentedAllocator::stop
   stopIdx |-> [a \in Allocators |-> 0],
   wstop |-> [a \in Allocators |-> [w \in Writers |-> "none"]]]   \* Writer::stop

InitAllocIdle == sa = SAFresh

\* segment_off_t base = MAX_SEG_OFF
MaxSegOff == 2147483647
\* A default-constructed paddr_t (OolExtent::ool_offset before encode).
NullAddr == Addr(TempSeg, 0)

\* ool_record_t after construction and after clear().
RBFresh ==
  [extents |-> <<>>,          \* vector<OolExtent>: [lextent, ool_offset]
   record_extents |-> <<>>,   \* record.extents: the payload length of each
   extent_buf_len |-> 0,
   base |-> MaxSegOff,
   encoded |-> FALSE,         \* encode() has moved the record out
   segment |-> 0,             \* segment passed to encode()
   end_offset |-> 0,          \* extent_offset after the loop of encode()
   wouldbe |-> <<0, 0>>]      \* last get_wouldbe_encoded_record_length: <<extent, result>>

InitRecordIdle == rb = RBFresh

InitExtents == len \in [Extents -> Lens] /\ InitIndex

InitW == InitExtents /\ InitWriter /\ InitEPMIdle /\ InitAllocIdle /\ InitRecordIdle

\* ---------------------------------------------------------- Writer
\* _needs_roll(length)
NeedsRoll(alloc, length) == alloc + length > Capacity

\* The loop of write(): extents are added in order while the next one fits.
RECURSIVE FillRecord(_, _, _, _)
FillRecord(l, alloc, rec, xs) ==
  IF xs = <<>> THEN rec
  ELSE IF NeedsRoll(alloc, WouldbeEncodedRecordLength(l, rec, Head(xs))) THEN rec
  ELSE FillRecord(l, alloc, Append(rec, Head(xs)), Tail(xs))

InSeq(x, s) == \E i \in DOMAIN s : s[i] = x
IndexOf(x, s) == CHOOSE i \in DOMAIN s : s[i] = x
RemoveSeg(s, h) == SelectSeq(s, LAMBDA x : x # h)

\* seastar::gate
GateEnter(g) == [g EXCEPT !.count = @ + 1]
GateLeave(g) == [g EXCEPT !.count = @ - 1]
\* Variant: stop() does not close the gate.
GateClose_Noop(g) == g

GateClose(g) == [g EXCEPT !.closed = TRUE]

\* Writer::write, admission: a closed gate rejects the call ("writer closed").
WriteCall(k, n) ==
  /\ tPc[k] = "idle"
  /\ \A j \in Tasks : j < k => tPc[j] # "idle"   \* calls are numbered in call order
  /\ nextExt + n - 1 <= NumExtents
  /\ tBatch' = [tBatch EXCEPT ![k] = [i \in 1..n |-> nextExt + i - 1]]
  /\ nextExt' = nextExt + n
  /\ IF writer_guard.closed
       THEN /\ tPc' = [tPc EXCEPT ![k] = "failed"]
            /\ tErr' = [tErr EXCEPT ![k] = "closed"]
            /\ UNCHANGED <<writer_guard, tExt>>
       ELSE /\ writer_guard' = GateEnter(writer_guard)
            /\ tPc' = [tPc EXCEPT ![k] = "ready"]
            /\ tExt' = [tExt EXCEPT ![k] = tBatch'[k]]
            /\ UNCHANGED tErr
  /\ UNCHANGED <<extentVars, current_segment, open_segments, allocated_to,
                 rolling_segment, inflight_writes, outdated, closers, segState,
                 closeCalls, nextSeg, appends, rolls, tRec, tSeg, tPos, tFlush,
                 stopVars, epm, sa, rb>>

\* Writer::_write: advance allocated_to, encode the record against the current
\* segment, register the in-flight write and issue the append.
WriteRecord(k, rec, flush) ==
  /\ allocated_to' = allocated_to + EncodedRecordLength(len, rec)
  /\ finalAddr' = [e \in Extents |->
       IF InSeq(e, rec)
         THEN EncodeAddr(len, rec, current_segment, allocated_to, IndexOf(e, rec))
         ELSE finalAddr[e]]
  /\ inflight_writes' = [inflight_writes EXCEPT ![current_segment] = @ \cup {k}]
  /\ appends' = Append(appends, [seg |-> current_segment, base |-> allocated_to,
                                 size |-> EncodedRecordLength(len, rec),
                                 exts |-> rec, task |-> k])
  /\ tSeg' = [tSeg EXCEPT ![k] = current_segment]
  /\ tRec' = [tRec EXCEPT ![k] = rec]
  /\ tExt' = [tExt EXCEPT ![k] = SubSeq(@, Len(rec) + 1, Len(@))]
  /\ tFlush' = [tFlush EXCEPT ![k] = flush]
  /\ tPc' = [tPc EXCEPT ![k] = "append"]
  /\ UNCHANGED <<len, paddr, lba, updCalls, updArgs, appended, faults,
                 current_segment, open_segments, rolling_segment, writer_guard,
                 outdated, closers, segState, closeCalls, nextSeg, rolls,
                 nextExt, tBatch, tPos, tErr, stopVars, epm, sa, rb>>

\* Writer::roll_segment, up to the request for a new segment: mark rolling,
\* mark the current handle outdated and hand its close to a background fiber
\* that runs under the gate (a closed gate leaves the handle to stop()).
RollBegin(k) ==
  /\ rolling_segment' = TRUE
  /\ rolls' = [rolls EXCEPT ![k] = IF current_segment # 0 THEN @ + 1 ELSE @]
  /\ current_segment' = 0
  /\ IF current_segment # 0
       THEN /\ outdated' = [outdated EXCEPT ![current_segment] = TRUE]
            /\ IF writer_guard.closed
                 THEN UNCHANGED <<closers, writer_guard>>
                 ELSE /\ closers' = closers \cup {current_segment}
                      /\ writer_guard' = GateEnter(writer_guard)
       ELSE UNCHANGED <<outdated, closers, writer_guard>>
  /\ tPc' = [tPc EXCEPT ![k] = "roll_open"]
  /\ UNCHANGED <<extentVars, open_segments, allocated_to, inflight_writes,
                 segState, closeCalls, nextSeg, appends, nextExt, tBatch, tExt,
                 tRec, tSeg, tPos, tFlush, tErr, stopVars, epm, sa, rb>>

\* Variant: a write does not wait for the roll under way.
Drive_NoWait(k) ==
  /\ tPc[k] = "ready"
  /\ IF current_segment = 0
       THEN RollBegin(k)
       ELSE LET rec == FillRecord(len, allocated_to, <<>>, tExt[k])
            IN IF rec = <<>> THEN RollBegin(k)
               ELSE WriteRecord(k, rec, Len(rec) < Len(tExt[k]))

\* Writer::write, the synchronous run of one pass: wait while a roll is under
\* way; without a segment, roll; otherwise fill a record and either write it
\* (all extents fit), flush it before a roll, or roll at once (nothing fits).
Drive(k) ==
  /\ tPc[k] = "ready"
  /\ ~rolling_segment
  /\ IF current_segment = 0
       THEN RollBegin(k)
       ELSE LET rec == FillRecord(len, allocated_to, <<>>, tExt[k])
            IN IF rec = <<>> THEN RollBegin(k)
               ELSE WriteRecord(k, rec, Len(rec) < Len(tExt[k]))

\* A failed write leaves the gate.
TaskFails(k, err) ==
  /\ tPc' = [tPc EXCEPT ![k] = "failed"]
  /\ tErr' = [tErr EXCEPT ![k] = err]
  /\ writer_guard' = GateLeave(writer_guard)

\* Segment::write completed: the in-flight entry goes, finish_write follows.
AppendDone(k) ==
  /\ tPc[k] = "append"
  /\ inflight_writes' = [inflight_writes EXCEPT ![tSeg[k]] = @ \ {k}]
  /\ appended' = [e \in Extents |-> appended[e] \/ InSeq(e, tRec[k])]
  /\ tPc' = [tPc EXCEPT ![k] = "finish"]
  /\ tPos' = [tPos EXCEPT ![k] = 1]
  /\ UNCHANGED <<len, paddr, lba, updCalls, updArgs, finalAddr, faults,
                 current_segment, open_segments, allocated_to, rolling_segment,
                 writer_guard, outdated, closers, segState, closeCalls, nextSeg,
                 appends, rolls, nextExt, tBatch, tExt, tRec, tSeg, tFlush, tErr,
                 stopVars, epm, sa, rb>>

\* Variant: finish_write runs although the append failed.
AppendFail_UpdatesIndex(k) ==
  /\ tPc[k] = "append"
  /\ faults < MaxFaults
  /\ faults' = faults + 1
  /\ inflight_writes' = [inflight_writes EXCEPT ![tSeg[k]] = @ \ {k}]
  /\ TaskFails(k, "device")
  /\ lba' = [e \in Extents |-> IF InSeq(e, tRec[k]) THEN finalAddr[e] ELSE lba[e]]
  /\ updCalls' = [e \in Extents |->
       IF InSeq(e, tRec[k]) THEN updCalls[e] + 1 ELSE updCalls[e]]
  /\ UNCHANGED <<len, paddr, updArgs, appended, finalAddr,
                 current_segment, open_segments, allocated_to, rolling_segment,
                 outdated, closers, segState, closeCalls, nextSeg, appends,
                 rolls, nextExt, tBatch, tExt, tRec, tSeg, tPos, tFlush,
                 stopVars, epm, sa, rb>>

\* Segment::write failed with one of write_iertr's errors.
AppendFail(k) ==
  /\ tPc[k] = "append"
  /\ faults < MaxFaults
  /\ faults' = faults + 1
  /\ inflight_writes' = [inflight_writes EXCEPT ![tSeg[k]] = @ \ {k}]
  /\ TaskFails(k, "device")
  /\ UNCHANGED <<len, paddr, lba, updCalls, updArgs, appended, finalAddr,
                 current_segment, open_segments, allocated_to, rolling_segment,
                 outdated, closers, segState, closeCalls, nextSeg, appends,
                 rolls, nextExt, tBatch, tExt, tRec, tSeg, tPos, tFlush,
                 stopVars, epm, sa, rb>>

\* LBAManager::update_mapping(laddr, expected old, new): compare and swap.
UpdateMapping(e, old, new) ==
  /\ updCalls' = [updCalls EXCEPT ![e] = @ + 1]
  /\ updArgs' = [updArgs EXCEPT ![e] = <<old, new>>]
  /\ lba' = [lba EXCEPT ![e] = new]

\* Variant: the extent is marked ool before its old address is read.
FinishArgs_MarkedFirst(e) == <<finalAddr[e], finalAddr[e]>>

\* finish_write's arguments to update_mapping: the address the extent carries
\* (its temporary one) as expected old, its ool address as new.
FinishArgs(e) == <<paddr[e], finalAddr[e]>>

\* Writer::finish_write, one extent of the record: update the index from the
\* extent's address to its ool address, then mark the extent ool.
FinishWrite(k) ==
  /\ tPc[k] = "finish"
  /\ LET e == tRec[k][tPos[k]]
         last == tPos[k] = Len(tRec[k])
     IN /\ lba[e] = FinishArgs(e)[1]
        /\ UpdateMapping(e, FinishArgs(e)[1], FinishArgs(e)[2])
        /\ paddr' = [paddr EXCEPT ![e] = finalAddr[e]]
        /\ tPos' = [tPos EXCEPT ![k] = @ + 1]
        /\ IF ~last
             THEN UNCHANGED <<tPc, writer_guard>>
             ELSE IF tFlush[k]
               THEN /\ tPc' = [tPc EXCEPT ![k] = "need_roll"]
                    /\ UNCHANGED writer_guard
               ELSE /\ tPc' = [tPc EXCEPT ![k] = "done"]
                    /\ writer_guard' = GateLeave(writer_guard)
  /\ UNCHANGED <<len, appended, finalAddr, faults, current_segment,
                 open_segments, allocated_to, rolling_segment, inflight_writes,
                 outdated, closers, segState, closeCalls, nextSeg, appends,
                 rolls, nextExt, tBatch, tExt, tRec, tSeg, tFlush, tErr,
                 stopVars, epm, sa, rb>>

\* update_mapping failed (conflict or error): the write fails.
FinishWriteFail(k) ==
  /\ tPc[k] = "finish"
  /\ faults < MaxFaults
  /\ faults' = faults + 1
  /\ updCalls' = [updCalls EXCEPT ![tRec[k][tPos[k]]] = @ + 1]
  /\ updArgs' = [updArgs EXCEPT ![tRec[k][tPos[k]]] = FinishArgs(tRec[k][tPos[k]])]
  /\ TaskFails(k, "index")
  /\ UNCHANGED <<len, paddr, lba, appended, finalAddr, current_segment,
                 open_segments, allocated_to, rolling_segment, inflight_writes,
                 outdated, closers, segState, closeCalls, nextSeg, appends,
                 rolls, nextExt, tBatch, tExt, tRec, tSeg, tPos, tFlush,
                 stopVars, epm, sa, rb>>

\* After the flush: roll, unless another roll is under way (then wait and
\* re-check).
RollAfterFlush(k) ==
  /\ tPc[k] = "need_roll"
  /\ IF rolling_segment
       THEN /\ tPc' = [tPc EXCEPT ![k] = "ready"]
            /\ UNCHANGED <<extentVars, writerVars, tBatch, tExt, tRec, tSeg,
                           tPos, tFlush, tErr, stopVars, epm, sa, rb>>
       ELSE RollBegin(k)

\* roll_segment: the provider handed out a segment; install it.
RollOpen(k) ==
  /\ tPc[k] = "roll_open"
  /\ nextSeg <= MaxSegs
  /\ segState' = [segState EXCEPT ![nextSeg] = "open"]
  /\ current_segment' = nextSeg
  /\ open_segments' = Append(open_segments, nextSeg)
  /\ nextSeg' = nextSeg + 1
  /\ allocated_to' = 0
  /\ rolling_segment' = FALSE
  /\ tPc' = [tPc EXCEPT ![k] = "ready"]
  /\ UNCHANGED <<extentVars, writer_guard, inflight_writes, outdated, closers,
                 closeCalls, appends, rolls, nextExt, tBatch, tExt, tRec, tSeg,
                 tPos, tFlush, tErr, stopVars, epm, sa, rb>>

\* roll_segment: no replacement segment; the writer stays without one.
RollOpenFail(k) ==
  /\ tPc[k] = "roll_open"
  /\ \/ nextSeg > MaxSegs /\ UNCHANGED faults
     \/ faults < MaxFaults /\ faults' = faults + 1
  /\ rolling_segment' = FALSE
  /\ TaskFails(k, "roll")
  /\ UNCHANGED <<len, paddr, lba, updCalls, updArgs, appended, finalAddr,
                 current_segment, open_segments, allocated_to, inflight_writes,
                 outdated, closers, segState, closeCalls, nextSeg, appends,
                 rolls, nextExt, tBatch, tExt, tRec, tSeg, tPos, tFlush,
                 stopVars, epm, sa, rb>>

\* The background close of a superseded handle, once its writes have drained.
CloseOutdated(h) ==
  /\ h \in closers
  /\ inflight_writes[h] = {}
  /\ segState' = [segState EXCEPT ![h] = "closed"]
  /\ closeCalls' = [closeCalls EXCEPT ![h] = @ + 1]
  /\ open_segments' = RemoveSeg(open_segments, h)
  /\ closers' = closers \ {h}
  /\ writer_guard' = GateLeave(writer_guard)
  /\ UNCHANGED <<extentVars, current_segment, allocated_to, rolling_segment,
                 inflight_writes, outdated, nextSeg, appends, rolls, nextExt,
                 taskVars, stopVars, epm, sa, rb>>

\* ------------------------------------------------------ Writer::stop
StopReturned == stopPc \in {"idle", "done", "failed"}

\* stop(): writer_guard.close().  seastar::gate::close() asserts that the gate
\* was not closed before; with the assertion compiled out the call goes on.
StopCall ==
  /\ StopReturned
  /\ stopCalls < MaxStops
  /\ stopCalls' = stopCalls + 1
  /\ stopIdx' = 0
  /\ writer_guard' = GateClose(writer_guard)
  /\ \/ stopPc' = "drain"
     \/ writer_guard.closed /\ stopPc' = "asserted"
  /\ UNCHANGED <<extentVars, current_segment, open_segments, allocated_to,
                 rolling_segment, inflight_writes, outdated, closers, segState,
                 closeCalls, nextSeg, appends, rolls, nextExt, taskVars, epm, sa, rb>>

\* Variant: the segments are closed without waiting for the gate to drain.
StopDrained_NoWait ==
  /\ stopPc = "drain"
  /\ IF open_segments = <<>>
       THEN stopPc' = "done" /\ UNCHANGED stopIdx
       ELSE stopPc' = "closing" /\ stopIdx' = 1
  /\ UNCHANGED <<extentVars, writerVars, taskVars, stopCalls, epm, sa, rb>>

\* The future of close() resolves once every holder has left the gate; then
\* do_for_each(open_segments, ...) starts.
StopDrained ==
  /\ stopPc = "drain"
  /\ writer_guard.count = 0
  /\ IF open_segments = <<>>
       THEN stopPc' = "done" /\ UNCHANGED stopIdx
       ELSE stopPc' = "closing" /\ stopIdx' = 1
  /\ UNCHANGED <<extentVars, writerVars, taskVars, stopCalls, epm, sa, rb>>

\* seg_wrapper->segment->close() succeeded; do_for_each moves on.
StopCloseSeg ==
  /\ stopPc = "closing"
  /\ LET h == open_segments[stopIdx]
     IN /\ segState' = [segState EXCEPT ![h] = "closed"]
        /\ closeCalls' = [closeCalls EXCEPT ![h] = @ + 1]
  /\ IF stopIdx = Len(open_segments)
       THEN stopPc' = "done" /\ UNCHANGED stopIdx
       ELSE stopIdx' = stopIdx + 1 /\ UNCHANGED stopPc
  /\ UNCHANGED <<extentVars, current_segment, open_segments, allocated_to,
                 rolling_segment, writer_guard, inflight_writes, outdated,
                 closers, nextSeg, appends, rolls, nextExt, taskVars, stopCalls,
                 epm, sa, rb>>

\* seg_wrapper->segment->close() failed: do_for_each stops and stop() fails.
StopCloseFail ==
  /\ stopPc = "closing"
  /\ faults < MaxFaults
  /\ faults' = faults + 1
  /\ closeCalls' = [closeCalls EXCEPT ![open_segments[stopIdx]] = @ + 1]
  /\ stopPc' = "failed"
  /\ UNCHANGED <<len, paddr, lba, updCalls, updArgs, appended, finalAddr,
                 current_segment, open_segments, allocated_to, rolling_segment,
                 writer_guard, inflight_writes, outdated, closers, segState,
                 nextSeg, appends, rolls, nextExt, taskVars, stopIdx, stopCalls,
                 epm, sa, rb>>

\* A failed assertion ends the process.
Alive == stopPc # "asserted"

NextWriter ==
  \/ \E k \in Tasks, n \in 1..MaxBatch : Alive /\ WriteCall(k, n)
  \/ \E k \in Tasks : Alive /\ Drive(k)
  \/ \E k \in Tasks : Alive /\ AppendDone(k)
  \/ \E k \in Tasks : Alive /\ AppendFail(k)
  \/ \E k \in Tasks : Alive /\ FinishWrite(k)
  \/ \E k \in Tasks : Alive /\ FinishWriteFail(k)
  \/ \E k \in Tasks : Alive /\ RollAfterFlush(k)
  \/ \E k \in Tasks : Alive /\ RollOpen(k)
  \/ \E k \in Tasks : Alive /\ RollOpenFail(k)
  \/ \E h \in Segs : Alive /\ CloseOutdated(h)
  \/ Alive /\ StopCall
  \/ Alive /\ StopDrained
  \/ Alive /\ StopCloseSeg
  \/ Alive /\ StopCloseFail

SpecWriter == InitW /\ [][NextWriter]_vars

\* =================================================================
\* Properties of the Writer (checked under SpecWriter)
\* =================================================================
TaskReturned(k) == tPc[k] \in {"idle", "done", "failed"}
Admitted(k) == tPc[k] # "idle" /\ tErr[k] # "closed"
AppendsOf(k) == SelectSeq(appends, LAMBDA a : a.task = k)

RECURSIVE ConcatExts(_)
ConcatExts(s) == IF s = <<>> THEN <<>> ELSE Head(s).exts \o ConcatExts(Tail(s))

C2_WriteAfterStopRejected ==
  /\ [][\A k \in Tasks :
          (stopCalls > 0 /\ tPc[k] = "idle" /\ tPc'[k] # "idle") =>
            /\ tPc'[k] = "failed" /\ tErr'[k] = "closed"
            /\ appends' = appends /\ rolls' = rolls
            /\ updCalls' = updCalls /\ lba' = lba
            /\ allocated_to' = allocated_to
            /\ current_segment' = current_segment
            /\ inflight_writes' = inflight_writes]_vars
  /\ [][\A k \in Tasks : tErr[k] = "closed" =>
          /\ tPc'[k] = "failed" /\ tErr'[k] = "closed"
          /\ \A e \in Extents : InSeq(e, tBatch[k]) =>
               updCalls'[e] = 0 /\ ~InSeq(e, ConcatExts(appends'))]_vars

\* C2 witness: a call was rejected while an earlier write was still running.
C2_Witness ==
  \E k, j \in Tasks : tErr[k] = "closed" /\ tPc[j] = "append"

\* C3: calling stop() twice is safe: no assertion fails and no segment that
\* is already closed is closed again.
C3_StopTwiceSafe ==
  /\ [](stopPc # "asserted")
  /\ [][\A s \in Segs : closeCalls'[s] > closeCalls[s] => segState[s] # "closed"]_vars

\* C4: each record write moves allocated_to strictly forward, allocated_to
\* never exceeds the segment capacity, and it goes back (to zero) only when a
\* roll installs a new segment.
C4_MonotonicWritePointer ==
  /\ [](allocated_to \in 0..Capacity)
  /\ [][appends' # appends =>
          /\ allocated_to' > allocated_to
          /\ current_segment' = current_segment]_vars
  /\ [][allocated_to' < allocated_to =>
          /\ allocated_to' = 0
          /\ current_segment' # 0 /\ current_segment' # current_segment
          /\ segState[current_segment'] = "free"]_vars

\* C4 witness: two records written to one segment, the second ending exactly
\* at the capacity.
C4_Witness ==
  /\ allocated_to = Capacity
  /\ \E i, j \in DOMAIN appends :
       i < j /\ appends[i].seg = appends[j].seg /\ appends[j].base > 0

\* The size a record has on the device: its block-aligned header and payloads.
RecordBytes(exts) ==
  P2RoundUp(HeaderFixed + Len(exts) * DescSize, BlockSize) + SumLen(len, exts)

Solo(k) == \A j \in Tasks \ {k} : tPc[j] = "idle"

\* C5 (as stated): a write whose batch does not fit in one segment rolls
\* exactly once (here for a write that ran alone on a fresh writer).
C5_ExactlyOneRoll ==
  \A k \in Tasks :
    (Solo(k) /\ tPc[k] = "done" /\ RecordBytes(tBatch[k]) > Capacity) =>
      rolls[k] = 1

\* C5 (amended): the batch is cut at every point where adding the next extent
\* would make allocated_to + would_be_size exceed the capacity, and a roll
\* follows each cut, so a long batch rolls more than once: every record is
\* non-empty and fits in its segment; a record that is followed by more
\* extents of the batch could not have taken the next one, and the record
\* after it is in another segment; the record built so far is on the device
\* before the roll starts; the records of a write hold its batch in order,
\* each extent exactly once; a write alone on a fresh writer rolls exactly
\* once per cut.
C5_RollAtEveryOverflow ==
  /\ [](\A i \in DOMAIN appends :
          /\ appends[i].exts # <<>>
          /\ appends[i].size = RecordBytes(appends[i].exts)
          /\ appends[i].base + appends[i].size <= Capacity)
  /\ [](\A k \in Tasks : Admitted(k) =>
          /\ ConcatExts(AppendsOf(k)) \o tExt[k] = tBatch[k]
          /\ tPc[k] = "done" => tExt[k] = <<>>
          /\ \A i \in 1..(Len(AppendsOf(k)) - 1) :
               LET a == AppendsOf(k)[i]
                   x == AppendsOf(k)[i + 1].exts[1]
               IN /\ a.base + RecordBytes(Append(a.exts, x)) > Capacity
                  /\ AppendsOf(k)[i + 1].seg # a.seg
                  /\ AppendsOf(k)[i + 1].base = 0 \/ ~Solo(k))
  /\ [](\A k \in Tasks : (Solo(k) /\ tPc[k] = "done") =>
          rolls[k] = Len(AppendsOf(k)) - 1)
  /\ [][\A k \in Tasks : rolls'[k] > rolls[k] =>
          \A e \in Extents :
            (InSeq(e, tBatch[k]) /\ ~InSeq(e, tExt[k])) => appended[e]]_vars

\* C5 witness: a batch of three extents written in two records, the first
\* with two extents in the old segment, the second in the new one, one roll.
C5_Witness ==
  \E k \in Tasks :
    /\ Solo(k) /\ tPc[k] = "done" /\ rolls[k] = 1
    /\ Len(tBatch[k]) = 3
    /\ Len(appends) = 2
    /\ Len(appends[1].exts) = 2 /\ appends[2].seg # appends[1].seg

\* C6: every extent of a successful write has exactly one update_mapping
\* call, from the temporary address it carried to the address its record
\* gave it at encode time, and no update_mapping call is made for an extent
\* before the append of its record has completed.
C6_IndexConsistency ==
  /\ [](\A k \in Tasks : tPc[k] = "done" =>
          \A e \in Extents : InSeq(e, tBatch[k]) =>
            /\ updCalls[e] = 1
            /\ updArgs[e] = <<TempAddr(e), finalAddr[e]>>
            /\ finalAddr[e][1] \in Segs
            /\ lba[e] = finalAddr[e] /\ paddr[e] = finalAddr[e])
  /\ [](\A e \in Extents : updCalls[e] <= 1)
  /\ [][\A e \in Extents : updCalls'[e] > updCalls[e] =>
          /\ appended[e]
          /\ updArgs'[e] = <<TempAddr(e), finalAddr[e]>>]_vars

\* C6 witness: a write of two records has completed and updated the index
\* for all three extents of its batch.
C6_Witness ==
  \E k \in Tasks :
    /\ tPc[k] = "done" /\ Len(tBatch[k]) = 3 /\ Len(AppendsOf(k)) >= 2
    /\ \A e \in Extents : InSeq(e, tBatch[k]) => lba[e] = finalAddr[e]

\* The extents of the batch of k that went into records before the current one.
EarlierExtents(k) ==
  {e \in Extents : InSeq(e, tBatch[k]) /\ ~InSeq(e, tRec[k]) /\ ~InSeq(e, tExt[k])}

\* C7: when the append of a record fails, the write fails with the device's
\* failure, no extent of that record has its index entry updated, and the
\* index updates of the earlier records of the same write stay in place.
C7_PartialBatchFailure ==
  \A k \in Tasks : tErr[k] = "device" =>
    /\ tPc[k] = "failed"
    /\ \A e \in Extents : InSeq(e, tRec[k]) =>
         updCalls[e] = 0 /\ lba[e] = TempAddr(e)
    /\ \A e \in EarlierExtents(k) :
         updCalls[e] = 1 /\ lba[e] = finalAddr[e] /\ lba[e] # TempAddr(e)

\* C7 witness: the second record of a write failed on the device after the
\* first had been written and indexed.
C7_Witness ==
  \E k \in Tasks : tErr[k] = "device" /\ EarlierExtents(k) # {}

\* =================================================================
\* ExtentPlacementManager::delayed_alloc_or_ool_write
\* =================================================================
\* Address an allocator gives an extent it wrote out of line.
OolAddr(a, e) == Addr(a, e)

\* One iteration of the loop over the delayed-allocation list.  c is the
\* outcome of should_be_inline / get_allocator for the extent: 0 for inline,
\* otherwise the allocator picked.
\* Variant: an invalid extent is counted but not skipped.
ClassifyExtent_NoSkip(st, e, c) ==
  LET st1 == IF ~st.valid[e] THEN [st EXCEPT !.invalid = @ + 1] ELSE st
  IN IF c = 0
       THEN [st1 EXCEPT !.inline_list = Append(@, <<st.paddr[e], e>>),
                        !.paddr[e] = InlineAddr(e)]
       ELSE [st1 EXCEPT !.alloc_map[c] = Append(@, e)]

ClassifyExtent(st, e, c) ==
  IF ~st.valid[e]
    THEN [st EXCEPT !.invalid = @ + 1]
    ELSE IF c = 0
      THEN [st EXCEPT !.inline_list = Append(@, <<st.paddr[e], e>>),
                      !.paddr[e] = InlineAddr(e)]
      ELSE [st EXCEPT !.alloc_map[c] = Append(@, e)]

RECURSIVE ClassifyLoop(_, _, _)
ClassifyLoop(st, list, choice) ==
  IF list = <<>> THEN st
  ELSE ClassifyLoop(ClassifyExtent(st, Head(list), choice[Head(list)]),
                    Tail(list), choice)

\* t.get_delayed_alloc_list()
DelayedAllocList == [i \in 1..NumExtents |-> i]

\* The keys of alloc_map: allocators that received at least one extent.
Keys == {a \in Allocators : epm.alloc_map[a] # <<>>}

Classify(choice) ==
  /\ epm.pc = "start"
  /\ LET st == ClassifyLoop([valid |-> epm.valid, invalid |-> epm.invalid,
                             inline_list |-> <<>>,
                             alloc_map |-> [a \in Allocators |-> <<>>],
                             paddr |-> paddr],
                            DelayedAllocList, choice)
     IN /\ epm' = [epm EXCEPT !.pc = "dispatch", !.invalid = st.invalid,
                              !.inline_list = st.inline_list,
                              !.alloc_map = st.alloc_map]
        /\ paddr' = st.paddr
  /\ UNCHANGED <<len, lba, updCalls, updArgs, appended, finalAddr, faults,
                 writerVars, taskVars, stopVars, sa, rb>>

\* Variant: every group's call is started at once (a parallel dispatch).
MayStart_Parallel(a) == a \in Keys \ (epm.running \cup epm.completed)

\* trans_intr::do_for_each(alloc_map, ...): the next allocator is called once
\* the calls before it, in key order, have completed.
MayStart(a) ==
  /\ a \in Keys \ (epm.running \cup epm.completed)
  /\ \A b \in Keys : b < a => b \in epm.completed

AllocStart(a) ==
  /\ epm.pc = "dispatch"
  /\ MayStart(a)
  /\ epm' = [epm EXCEPT !.running = @ \cup {a},
                        !.overlapped = @ \/ epm.running # {}]
  /\ UNCHANGED <<extentVars, writerVars, taskVars, stopVars, sa, rb>>

SeqSet(q) == {q[i] : i \in DOMAIN q}

\* The index and the extents after an allocator relocated the extents in done.
Relocated(a, done) ==
  /\ lba' = [e \in Extents |-> IF e \in done THEN OolAddr(a, e) ELSE lba[e]]
  /\ paddr' = [e \in Extents |-> IF e \in done THEN OolAddr(a, e) ELSE paddr[e]]
  /\ updCalls' = [e \in Extents |-> IF e \in done THEN updCalls[e] + 1 ELSE updCalls[e]]
  /\ updArgs' = [e \in Extents |->
       IF e \in done THEN <<paddr[e], OolAddr(a, e)>> ELSE updArgs[e]]

\* ExtentAllocator::alloc_ool_extents_paddr succeeded: its writers wrote the
\* extents and updated their index entries.
AllocDone(a) ==
  /\ epm.pc = "dispatch"
  /\ a \in epm.running
  /\ Relocated(a, SeqSet(epm.alloc_map[a]))
  /\ epm' = [epm EXCEPT !.running = @ \ {a}, !.completed = @ \cup {a},
                        !.written = @ \cup SeqSet(epm.alloc_map[a])]
  /\ UNCHANGED <<len, appended, finalAddr, faults, writerVars, taskVars, stopVars, sa, rb>>

\* Variant: the failure of a group is swallowed and the resolution goes on.
AllocFail_Swallowed(a, n) ==
  /\ epm.pc = "dispatch"
  /\ a \in epm.running
  /\ n < Len(epm.alloc_map[a])
  /\ faults < MaxFaults
  /\ faults' = faults + 1
  /\ Relocated(a, SeqSet(SubSeq(epm.alloc_map[a], 1, n)))
  /\ epm' = [epm EXCEPT !.running = @ \ {a}, !.completed = @ \cup {a},
                        !.err = "alloc",
                        !.written = @ \cup SeqSet(SubSeq(epm.alloc_map[a], 1, n))]
  /\ UNCHANGED <<len, appended, finalAddr, writerVars, taskVars, stopVars, sa, rb>>

\* alloc_ool_extents_paddr failed after relocating the first n extents: the
\* do_for_each stops and the resolution fails.
AllocFail(a, n) ==
  /\ epm.pc = "dispatch"
  /\ a \in epm.running
  /\ n < Len(epm.alloc_map[a])
  /\ faults < MaxFaults
  /\ faults' = faults + 1
  /\ Relocated(a, SeqSet(SubSeq(epm.alloc_map[a], 1, n)))
  /\ epm' = [epm EXCEPT !.running = @ \ {a}, !.pc = "failed", !.err = "alloc",
                        !.written = @ \cup SeqSet(SubSeq(epm.alloc_map[a], 1, n))]
  /\ UNCHANGED <<len, appended, finalAddr, writerVars, taskVars, stopVars, sa, rb>>

\* Variant: the inline pass does not wait for the allocators.
InlineMayStart_NoWait == TRUE

\* .si_then(...): the inline pass runs once the do_for_each over alloc_map has
\* completed.
InlineMayStart == Keys \subseteq epm.completed

\* lba_manager.update_mapping(t, laddr, old_addr, extent->get_paddr()) for the
\* next pair of inline_list.
InlineUpdate ==
  /\ epm.pc = "dispatch"
  /\ InlineMayStart
  /\ epm.ipos <= Len(epm.inline_list)
  /\ LET old == epm.inline_list[epm.ipos][1]
         e == epm.inline_list[epm.ipos][2]
     IN UpdateMapping(e, old, paddr[e])
  /\ epm' = [epm EXCEPT !.ipos = @ + 1]
  /\ UNCHANGED <<len, paddr, appended, finalAddr, faults, writerVars, taskVars,
                 stopVars, sa, rb>>

\* update_mapping failed: the inline pass stops and the resolution fails.
InlineUpdateFail ==
  /\ epm.pc = "dispatch"
  /\ InlineMayStart
  /\ epm.ipos <= Len(epm.inline_list)
  /\ faults < MaxFaults
  /\ faults' = faults + 1
  /\ updCalls' = [updCalls EXCEPT ![epm.inline_list[epm.ipos][2]] = @ + 1]
  /\ updArgs' = [updArgs EXCEPT ![epm.inline_list[epm.ipos][2]] =
                   <<epm.inline_list[epm.ipos][1], paddr[epm.inline_list[epm.ipos][2]]>>]
  /\ epm' = [epm EXCEPT !.pc = "failed", !.err = "index"]
  /\ UNCHANGED <<len, paddr, lba, appended, finalAddr, writerVars, taskVars,
                 stopVars, sa, rb>>

\* Both phases are through: the resolution succeeds.
ResolveDone ==
  /\ epm.pc = "dispatch"
  /\ InlineMayStart
  /\ epm.ipos > Len(epm.inline_list)
  /\ epm' = [epm EXCEPT !.pc = "done"]
  /\ UNCHANGED <<extentVars, writerVars, taskVars, stopVars, sa, rb>>

InitEPM ==
  /\ len = [e \in Extents |-> 2]
  /\ InitIndex
  /\ InitWriter
  /\ \E v \in [Extents -> BOOLEAN] : epm = EPMFresh(v)
  /\ InitAllocIdle
  /\ InitRecordIdle

NextEPM ==
  \/ \E choice \in [Extents -> {0} \cup Allocators] : Classify(choice)
  \/ \E a \in Allocators : AllocStart(a)
  \/ \E a \in Allocators : AllocDone(a)
  \/ \E a \in Allocators, n \in 0..NumExtents : AllocFail(a, n)
  \/ InlineUpdate
  \/ InlineUpdateFail
  \/ ResolveDone

SpecEPM == InitEPM /\ [][NextEPM]_vars

\* =================================================================
\* Properties of delayed_alloc_or_ool_write (checked under SpecEPM)
\* =================================================================
Invalid == {e \in Extents : ~epm.valid[e]}
InlineExtents == {epm.inline_list[i][2] : i \in DOMAIN epm.inline_list}
GroupExtents(a) == SeqSet(epm.alloc_map[a])
Classified == epm.pc # "start"

\* C8: an extent that is invalid at resolution time adds exactly one to the
\* transaction's invalid-extent counter, goes into no allocator group and not
\* into the inline list, so that no write and no index update includes it;
\* the valid extents are each classified and, when the resolution succeeds,
\* each has its index entry updated once to its final address.
C8_InvalidSkipped ==
  Classified =>
    /\ epm.invalid = Cardinality(Invalid)
    /\ \A e \in Invalid :
         /\ e \notin InlineExtents
         /\ \A a \in Allocators : e \notin GroupExtents(a)
         /\ e \notin epm.written
         /\ updCalls[e] = 0
         /\ paddr[e] = TempAddr(e) /\ lba[e] = TempAddr(e)
    /\ \A e \in Extents \ Invalid :
         /\ e \in InlineExtents \/ \E a \in Allocators : e \in GroupExtents(a)
         /\ epm.pc = "done" =>
              updCalls[e] = 1 /\ lba[e] = paddr[e] /\ lba[e] # TempAddr(e)

\* C8 witness: a resolution with one invalid extent, one inline extent and
\* one extent written out of line has succeeded.
C8_Witness ==
  /\ epm.pc = "done"
  /\ Cardinality(Invalid) = 1
  /\ Cardinality(InlineExtents) = 1
  /\ Cardinality(epm.written) = 1

\* C9: no update_mapping for an inline extent is issued while an allocator
\* group of alloc_map has not completed; the inline pairs are updated one at
\* a time in queue order, from the temporary address captured before the
\* cache marked the extent inline to the address it has after the marking.
C9_InlineAfterOol ==
  /\ [][\A e \in Extents :
          (e \in InlineExtents /\ updCalls'[e] > updCalls[e]) =>
            /\ \A a \in Allocators : epm.alloc_map[a] # <<>> => a \in epm.completed
            /\ epm.running = {}
            /\ epm.inline_list[epm.ipos][2] = e
            /\ epm'.ipos = epm.ipos + 1 \/ epm'.pc = "failed"
            /\ updArgs'[e] = <<TempAddr(e), InlineAddr(e)>>
            /\ \A x \in Extents \ {e} : updCalls'[x] = updCalls[x]]_vars
  /\ [](\A i \in DOMAIN epm.inline_list :
          /\ epm.inline_list[i][1] = TempAddr(epm.inline_list[i][2])
          /\ paddr[epm.inline_list[i][2]] = InlineAddr(epm.inline_list[i][2])
          /\ i < epm.ipos => lba[epm.inline_list[i][2]] = InlineAddr(epm.inline_list[i][2])
          /\ i > epm.ipos => updCalls[epm.inline_list[i][2]] = 0)
  /\ [](\A i, j \in DOMAIN epm.inline_list :
          i < j => epm.inline_list[i][2] < epm.inline_list[j][2])

\* C9 witness: both inline pairs have been updated after an allocator group
\* had completed.
C9_Witness ==
  /\ Len(epm.inline_list) = 2
  /\ epm.ipos = 3
  /\ epm.completed # {}

Bases == {0, BlockSize, 2 * BlockSize}    \* bases handed to set_base

RECURSIVE SumSeq(_)
SumSeq(q) == IF q = <<>> THEN 0 ELSE Head(q) + SumSeq(Tail(q))

\* record.get_raw_data_size(): the payload bytes held by record.extents
RbRawDataSize == SumSeq(rb.record_extents)

\* get_encoded_record_length(): rsize.mdlength and rsize.dlength
RbMdLength == MdLength(Len(rb.record_extents))
RbEncodedRecordLength == RbMdLength + RbRawDataSize

\* get_wouldbe_encoded_record_length(extent)
RbWouldbe(e) ==
  P2RoundUp(RawMdLength(Len(rb.record_extents)) + DescSize, BlockSize)
    + rb.extent_buf_len + len[e]

RbLextents == [i \in DOMAIN rb.extents |-> rb.extents[i].lextent]

RbUnchanged ==
  UNCHANGED <<extentVars, writerVars, taskVars, stopVars, epm, sa>>

\* Variant: add_extent does not add the payload length to extent_buf_len.
AddExtent_NoBufLen(e) ==
  /\ ~rb.encoded
  /\ Len(rb.extents) < MaxBatch
  /\ ~InSeq(e, RbLextents)
  /\ rb' = [rb EXCEPT
       !.extents = Append(@, [lextent |-> e, ool_offset |-> NullAddr]),
       !.record_extents = Append(@, len[e])]
  /\ RbUnchanged

\* add_extent(extent)
AddExtent(e) ==
  /\ ~rb.encoded
  /\ Len(rb.extents) < MaxBatch
  /\ ~InSeq(e, RbLextents)
  /\ rb' = [rb EXCEPT
       !.extents = Append(@, [lextent |-> e, ool_offset |-> NullAddr]),
       !.record_extents = Append(@, len[e]),
       !.extent_buf_len = @ + len[e]]
  /\ RbUnchanged

\* A call of get_wouldbe_encoded_record_length(extent); its result is kept.
WouldbeQuery(e) ==
  /\ ~rb.encoded
  /\ rb' = [rb EXCEPT !.wouldbe = <<e, RbWouldbe(e)>>]
  /\ RbUnchanged

\* set_base(b)
SetBase(b) ==
  /\ ~rb.encoded
  /\ rb.base # b
  /\ rb' = [rb EXCEPT !.base = b]
  /\ RbUnchanged

\* Variant: the offset is advanced before the extent gets its address.
RECURSIVE EncodeLoop_AdvanceFirst(_, _, _)
EncodeLoop_AdvanceFirst(exts, segment, extent_offset) ==
  IF exts = <<>> THEN [extents |-> <<>>, extent_offset |-> extent_offset]
  ELSE LET off == extent_offset + len[Head(exts).lextent]
           rest == EncodeLoop_AdvanceFirst(Tail(exts), segment, off)
       IN [extents |-> <<[Head(exts) EXCEPT !.ool_offset = Addr(segment, off)]>>
                         \o rest.extents,
           extent_offset |-> rest.extent_offset]

\* The loop of encode(): each extent gets {segment, extent_offset}, then the
\* offset moves on by the length of its payload.
RECURSIVE EncodeLoop(_, _, _)
EncodeLoop(exts, segment, extent_offset) ==
  IF exts = <<>> THEN [extents |-> <<>>, extent_offset |-> extent_offset]
  ELSE LET rest == EncodeLoop(Tail(exts), segment,
                              extent_offset + len[Head(exts).lextent])
       IN [extents |-> <<[Head(exts) EXCEPT
                            !.ool_offset = Addr(segment, extent_offset)]>>
                         \o rest.extents,
           extent_offset |-> rest.extent_offset]

\* encode(segment, nonce): called with the base set; the record is moved into
\* encode_record, which leaves record.extents empty.
Encode(segment) ==
  /\ ~rb.encoded
  /\ rb.base # MaxSegOff
  /\ rb.extents # <<>>
  /\ Len(rb.extents) = Len(rb.record_extents)
  /\ LET r == EncodeLoop(rb.extents, segment, rb.base + RbMdLength)
     IN /\ r.extent_offset = rb.base + RbMdLength + RbRawDataSize
        /\ rb' = [rb EXCEPT !.extents = r.extents,
                            !.end_offset = r.extent_offset,
                            !.segment = segment,
                            !.record_extents = <<>>,
                            !.encoded = TRUE]
  /\ RbUnchanged

\* clear()
Clear ==
  /\ rb # [RBFresh EXCEPT !.wouldbe = rb.wouldbe]
  /\ rb' = [rb EXCEPT !.extents = <<>>, !.record_extents = <<>>,
                      !.extent_buf_len = 0, !.base = MaxSegOff,
                      !.encoded = FALSE, !.segment = 0, !.end_offset = 0]
  /\ RbUnchanged

NextRecord ==
  \/ \E e \in Extents : AddExtent(e)
  \/ \E e \in Extents : WouldbeQuery(e)
  \/ \E b \in Bases : SetBase(b)
  \/ \E segment \in Segs : Encode(segment)
  \/ Clear

SpecRecord == InitW /\ [][NextRecord]_vars

\* =================================================================
\* Properties of ool_record_t (checked under SpecRecord)
\* =================================================================
\* C14: after encode() of a batch of N extents with base b, the i-th added
\* extent has the address (segment, b + header length + sum of the payload
\* lengths of the extents added before it), the extents keep their insertion
\* order, and the offset after the last extent is b + header length + total
\* payload length; the address the writer computes for an extent is the same.
C14_EncodeAddresses ==
  rb.encoded =>
    LET N == Len(rb.extents)
        header == P2RoundUp(HeaderFixed + N * DescSize, BlockSize)
    IN /\ \A i \in 1..N :
            /\ rb.extents[i].ool_offset =
                 <<rb.segment,
                   rb.base + header + SumLen(len, SubSeq(RbLextents, 1, i - 1))>>
            /\ rb.extents[i].ool_offset =
                 EncodeAddr(len, RbLextents, rb.segment, rb.base, i)
       /\ rb.end_offset = rb.base + header + SumLen(len, RbLextents)
       /\ rb.end_offset = rb.base + rb.extent_buf_len + header

\* C14 witness: a batch of three extents of different lengths was encoded at
\* a base other than zero.
C14_Witness ==
  /\ rb.encoded
  /\ Len(rb.extents) = 3
  /\ rb.base > 0
  /\ \E i, j \in DOMAIN rb.extents :
       len[rb.extents[i].lextent] # len[rb.extents[j].lextent]

\* C15: get_wouldbe_encoded_record_length(e) changes nothing of the batch,
\* and for every batch and every extent e its value is the value
\* get_encoded_record_length() (block-aligned header plus payload) has right
\* after add_extent(e); it is also the size the writer's roll check works with.
C15_WouldbeMatchesEncoded ==
  /\ [][\A e \in Extents :
          (~rb.encoded /\ rb'.extents = Append(rb.extents, [lextent |-> e,
                                                ool_offset |-> NullAddr])) =>
            /\ RbEncodedRecordLength' = RbWouldbe(e)
            /\ RbEncodedRecordLength' =
                 P2RoundUp(HeaderFixed + Len(rb'.extents) * DescSize, BlockSize)
                   + SumLen(len, RbLextents')]_vars
  /\ [][rb'.wouldbe # rb.wouldbe =>
          /\ rb' = [rb EXCEPT !.wouldbe = rb'.wouldbe]
          /\ rb'.wouldbe[2] = RbEncodedRecordLength + len[rb'.wouldbe[1]]
               + (P2RoundUp(RawMdLength(Len(rb.extents) + 1), BlockSize)
                    - RbMdLength)]_vars
  /\ [](~rb.encoded => \A e \in Extents :
          RbWouldbe(e) = WouldbeEncodedRecordLength(len, RbLextents, e))

\* C15 witness: the size asked for the second extent of a batch, whose
\* descriptor makes the header grow by a block, is the size of the batch
\* after the extent was added.
C15_Witness ==
  /\ ~rb.encoded
  /\ Len(rb.extents) = 2
  /\ rb.wouldbe = <<rb.extents[2].lextent, RbEncodedRecordLength>>
  /\ MdLength(2) > MdLength(1)

\* =================================================================
\* Further properties of the Writer (checked under SpecWriter)
\* =================================================================
\* The end of a record on the device.
RecordEnd(a) == a.base + a.size

\* The appends issued to segment s, in the order they were issued.
AppendsTo(s) == SelectSeq(appends, LAMBDA a : a.seg = s)

Rolling == {k \in Tasks : tPc[k] = "roll_open"}

\* C17: at most one roll is in flight per writer, and it is in flight exactly
\* while rolling_segment is set; a write that needs a roll while
\* rolling_segment is set starts none (it waits and checks again);
\* current_segment changes only when a roll starts (to none) and when that
\* roll installs its segment, once per roll; and when no roll is under way no
\* write is left waiting: every write that is ready to go on can run.
C17_RollSerialized ==
  /\ [](Cardinality(Rolling) = IF rolling_segment THEN 1 ELSE 0)
  /\ [](rolling_segment => current_segment = 0)
  /\ [][\A k \in Tasks :
          (tPc[k] # "roll_open" /\ tPc'[k] = "roll_open") =>
            ~rolling_segment /\ Rolling = {}]_vars
  /\ [][\A k \in Tasks :
          (rolling_segment /\ tPc[k] = "need_roll" /\ tPc'[k] # "need_roll") =>
            /\ tPc'[k] = "ready"
            /\ rolls' = rolls /\ current_segment' = current_segment
            /\ rolling_segment']_vars
  /\ [][current_segment' # current_segment =>
          \/ /\ ~rolling_segment /\ rolling_segment'
             /\ current_segment' = 0
          \/ /\ rolling_segment /\ ~rolling_segment'
             /\ current_segment = 0 /\ current_segment' = nextSeg
             /\ nextSeg' = nextSeg + 1
             /\ \E k \in Rolling : tPc'[k] = "ready"]_vars
  /\ []((Alive /\ ~rolling_segment) =>
          \A k \in Tasks : tPc[k] = "ready" => ENABLED Drive(k))

\* C17 witness: a write that flushed a record and needs a roll waits, because
\* the roll of another write, which replaces a segment, is in flight.
C17_Witness ==
  \E k, j \in Tasks :
    /\ tPc[k] = "roll_open" /\ rolls[k] = 1
    /\ tPc[j] = "ready" /\ AppendsOf(j) # <<>> /\ tExt[j] # <<>>
    /\ rolls[j] = 0

\* The extents that were given an address by a record, and their byte ranges.
Placed == {e \in Extents : InSeq(e, ConcatExts(appends))}
ExtentRange(e) == finalAddr[e][2]..(finalAddr[e][2] + len[e] - 1)
HeaderRange(a) == a.base..(a.base + MdLength(Len(a.exts)) - 1)

\* C19: over all writes through one writer, across rolls and with writes in
\* flight on a superseded segment, the byte ranges of two distinct extents in
\* the same segment never overlap, no extent overlaps the metadata header of
\* a record of its segment, every extent lies inside its record and inside
\* the segment, and a segment is installed only once.
C19_NoAddressReuse ==
  /\ [](\A e1, e2 \in Placed :
          (e1 # e2 /\ finalAddr[e1][1] = finalAddr[e2][1]) =>
            ExtentRange(e1) \cap ExtentRange(e2) = {})
  /\ [](\A e \in Placed : \A i \in DOMAIN appends :
          appends[i].seg = finalAddr[e][1] =>
            ExtentRange(e) \cap HeaderRange(appends[i]) = {})
  /\ [](\A i \in DOMAIN appends : \A j \in DOMAIN appends[i].exts :
          LET e == appends[i].exts[j]
          IN /\ finalAddr[e][1] = appends[i].seg
             /\ ExtentRange(e) \subseteq
                  (appends[i].base + MdLength(Len(appends[i].exts)))
                    ..(RecordEnd(appends[i]) - 1)
             /\ ExtentRange(e) \subseteq 0..(Capacity - 1))
  /\ [][current_segment' \in Segs /\ current_segment' # current_segment =>
          /\ segState[current_segment'] = "free"
          /\ AppendsTo(current_segment') = <<>>]_vars

\* C19 witness: two records share a segment that has been superseded and
\* still has a write in flight, while a later record is in the new segment.
C19_Witness ==
  \E h \in Segs :
    /\ outdated[h] /\ inflight_writes[h] # {}
    /\ Len(AppendsTo(h)) = 2
    /\ current_segment \in Segs /\ current_segment # h
    /\ AppendsTo(current_segment) # <<>>
    /\ Cardinality(Placed) = 3

\* =================================================================
\* SegmentedAllocator under delayed_alloc_or_ool_write: each allocator is a
\* pool of writers; Writer::write and Writer::stop are taken by their outcome
\* =================================================================
\* The keys of the alloc_map of the call on allocator a: the writers that got
\* at least one extent.  The map is ordered by Writer*, and the writers are
\* the elements of one vector, so key order is the order of the pool.
WKeys(a) == {w \in Writers : sa.alloc_map[a][w] # <<>>}

\* Variant: the extent is also put into the list of the first writer.
PartitionExtent_AlsoFirst(map, e, w) ==
  [v \in Writers |-> IF v = w \/ v = 1 THEN Append(map[v], e) ELSE map[v]]

\* alloc_map[writer].emplace_back(extent)
PartitionExtent(map, e, w) == [map EXCEPT ![w] = Append(@, e)]

\* for (auto& extent : extents): get_writer(extent->hint) picks the writer
\* (std::rand() % writers.size(); pick[e] is its outcome for the extent).
RECURSIVE PartitionLoop(_, _, _)
PartitionLoop(map, list, pick) ==
  IF list = <<>> THEN map
  ELSE PartitionLoop(PartitionExtent(map, Head(list), pick[Head(list)]),
                     Tail(list), pick)

AllocUnchanged == UNCHANGED <<writerVars, taskVars, stopVars, rb>>

\* alloc_ool_extents_paddr(t, extents) is called for the next allocator group
\* and partitions the group over the writers.
AllocCall(a, pick) ==
  /\ epm.pc = "dispatch"
  /\ MayStart(a)
  /\ \A e \in Extents \ SeqSet(epm.alloc_map[a]) : pick[e] = 1
  /\ epm' = [epm EXCEPT !.running = @ \cup {a},
                        !.overlapped = @ \/ epm.running # {}]
  /\ sa' = [sa EXCEPT !.alloc_map[a] =
              PartitionLoop([w \in Writers |-> <<>>], epm.alloc_map[a], pick)]
  /\ UNCHANGED extentVars
  /\ AllocUnchanged

\* Variant: the write of every partition is started at once.
MayWrite_Parallel(a, w) == w \in WKeys(a) /\ sa.wpc[a][w] = "idle"

\* trans_intr::do_for_each(alloc_map, ...): the write of a partition is
\* started once the writes of the partitions before it have completed.
MayWrite(a, w) ==
  /\ w \in WKeys(a)
  /\ sa.wpc[a][w] = "idle"
  /\ \A v \in WKeys(a) : v < w => sa.wpc[a][v] = "done"

Writing(a) == {w \in Writers : sa.wpc[a][w] = "writing"}

\* writer->write(t, extents_to_pesist) is called.  A writer whose stop() has
\* been called has its gate closed and rejects the write, which fails the call.
WriterWriteStart(a, w) ==
  /\ epm.pc = "dispatch"
  /\ a \in epm.running
  /\ MayWrite(a, w)
  /\ IF sa.wstop[a][w] # "none"
       THEN /\ sa' = [sa EXCEPT !.wpc[a][w] = "failed"]
            /\ epm' = [epm EXCEPT !.running = @ \ {a}, !.pc = "failed",
                                  !.err = "alloc"]
       ELSE /\ sa' = [sa EXCEPT !.wpc[a][w] = "writing",
                                !.overlapped = @ \/ Writing(a) # {}]
            /\ UNCHANGED epm
  /\ UNCHANGED extentVars
  /\ AllocUnchanged

\* The index entries the writer w of a updated for the extents in done.
UpdatedBy(a, w, done) ==
  [e \in Extents |-> IF e \in done THEN sa.updBy[e] \cup {<<a, w>>}
                                   ELSE sa.updBy[e]]

\* writer->write succeeded: the writer wrote its partition and updated the
\* index entries; after the last partition the call returns successfully.
WriterWriteDone(a, w) ==
  /\ sa.wpc[a][w] = "writing"
  /\ Relocated(a, SeqSet(sa.alloc_map[a][w]))
  /\ sa' = [sa EXCEPT !.wpc[a][w] = "done",
                      !.updBy = UpdatedBy(a, w, SeqSet(sa.alloc_map[a][w]))]
  /\ IF epm.pc = "dispatch" /\ \A v \in WKeys(a) \ {w} : sa.wpc[a][v] = "done"
       THEN epm' = [epm EXCEPT !.running = @ \ {a}, !.completed = @ \cup {a},
                               !.written = @ \cup SeqSet(sa.alloc_map[a][w])]
       ELSE epm' = [epm EXCEPT !.written = @ \cup SeqSet(sa.alloc_map[a][w])]
  /\ UNCHANGED <<len, appended, finalAddr, faults>>
  /\ AllocUnchanged

\* Variant: the failure of a partition's write is ignored by the call.
WriterWriteFail_Ignored(a, w, n) ==
  /\ sa.wpc[a][w] = "writing"
  /\ n < Len(sa.alloc_map[a][w])
  /\ faults < MaxFaults
  /\ faults' = faults + 1
  /\ Relocated(a, SeqSet(SubSeq(sa.alloc_map[a][w], 1, n)))
  /\ sa' = [sa EXCEPT !.wpc[a][w] = "failed",
                      !.updBy = UpdatedBy(a, w, SeqSet(SubSeq(sa.alloc_map[a][w], 1, n)))]
  /\ epm' = [epm EXCEPT !.running = @ \ {a}, !.completed = @ \cup {a},
                        !.written = @ \cup SeqSet(SubSeq(sa.alloc_map[a][w], 1, n))]
  /\ UNCHANGED <<len, appended, finalAddr>>
  /\ AllocUnchanged

\* writer->write failed after the records with its first n extents were
\* written: do_for_each stops, the call fails, the resolution fails.
WriterWriteFail(a, w, n) ==
  /\ sa.wpc[a][w] = "writing"
  /\ n < Len(sa.alloc_map[a][w])
  /\ faults < MaxFaults
  /\ faults' = faults + 1
  /\ Relocated(a, SeqSet(SubSeq(sa.alloc_map[a][w], 1, n)))
  /\ sa' = [sa EXCEPT !.wpc[a][w] = "failed",
                      !.updBy = UpdatedBy(a, w, SeqSet(SubSeq(sa.alloc_map[a][w], 1, n)))]
  /\ epm' = [epm EXCEPT !.running = @ \ {a}, !.pc = "failed", !.err = "alloc",
                        !.written = @ \cup SeqSet(SubSeq(sa.alloc_map[a][w], 1, n))]
  /\ UNCHANGED <<len, appended, finalAddr>>
  /\ AllocUnchanged

\* ------------------------------------------ SegmentedAllocator::stop
\* stop(): do_for_each(writers, ...) calls stop() of the first writer, which
\* closes that writer's gate at once.
SAStop(a) ==
  /\ sa.stopPc[a] = "idle"
  /\ sa' = [sa EXCEPT !.stopPc[a] = "running", !.stopIdx[a] = 1,
                      !.wstop[a][1] = "stopping"]
  /\ UNCHANGED <<extentVars, epm>>
  /\ AllocUnchanged

\* writer.stop() succeeded (the writer's gate has drained and its segments
\* are closed); do_for_each calls stop() of the next writer or finishes.
WriterStopDone(a) ==
  /\ sa.stopPc[a] = "running"
  /\ sa.wpc[a][sa.stopIdx[a]] # "writing"
  /\ IF sa.stopIdx[a] = NumWriters
       THEN sa' = [sa EXCEPT !.wstop[a][sa.stopIdx[a]] = "stopped",
                             !.stopPc[a] = "done"]
       ELSE sa' = [sa EXCEPT !.wstop[a][sa.stopIdx[a]] = "stopped",
                             !.wstop[a][sa.stopIdx[a] + 1] = "stopping",
                             !.stopIdx[a] = @ + 1]
  /\ UNCHANGED <<extentVars, epm>>
  /\ AllocUnchanged

\* writer.stop() failed (a Segment::close failed): do_for_each stops and
\* stop() fails.
WriterStopFail(a) ==
  /\ sa.stopPc[a] = "running"
  /\ sa.wpc[a][sa.stopIdx[a]] # "writing"
  /\ faults < MaxFaults
  /\ faults' = faults + 1
  /\ sa' = [sa EXCEPT !.wstop[a][sa.stopIdx[a]] = "failed",
                      !.stopPc[a] = "failed"]
  /\ UNCHANGED <<len, paddr, lba, updCalls, updArgs, appended, finalAddr, epm>>
  /\ AllocUnchanged

NextAlloc ==
  \/ \E choice \in [Extents -> {0} \cup Allocators] : Classify(choice)
  \/ \E a \in Allocators, pick \in [Extents -> Writers] : AllocCall(a, pick)
  \/ \E a \in Allocators, w \in Writers : WriterWriteStart(a, w)
  \/ \E a \in Allocators, w \in Writers : WriterWriteDone(a, w)
  \/ \E a \in Allocators, w \in Writers, n \in 0..NumExtents :
       WriterWriteFail(a, w, n)
  \/ InlineUpdate
  \/ InlineUpdateFail
  \/ ResolveDone
  \/ \E a \in Allocators : SAStop(a)
  \/ \E a \in Allocators : WriterStopDone(a)
  \/ \E a \in Allocators : WriterStopFail(a)

SpecAlloc == InitEPM /\ [][NextAlloc]_vars

\* =================================================================
\* Properties of SegmentedAllocator (checked under SpecAlloc)
\* =================================================================
\* The call on allocator a has been made / has returned successfully.
Called(a) ==
  a \in epm.running \cup epm.completed \/ \E w \in Writers : sa.wpc[a][w] # "idle"
Returned(a) == a \in epm.completed

C12_FirstFailureFailsCall ==
  /\ [](\A a \in Allocators : Returned(a) =>
          /\ \A w \in WKeys(a) : sa.wpc[a][w] = "done"
          /\ \A e \in SeqSet(epm.alloc_map[a]) :
               lba[e] = OolAddr(a, e) /\ updCalls[e] = 1)
  /\ [](\A a \in Allocators : \A w \in Writers : sa.wpc[a][w] = "failed" =>
          /\ epm.pc = "failed" /\ epm.err = "alloc"
          /\ ~Returned(a) /\ a \notin epm.running
          /\ \A v \in WKeys(a) :
               /\ v > w => sa.wpc[a][v] = "idle"
               /\ v < w => /\ sa.wpc[a][v] = "done"
                           /\ \A e \in SeqSet(sa.alloc_map[a][v]) :
                                lba[e] = OolAddr(a, e) /\ updCalls[e] = 1)
  /\ [][\A e \in Extents :
          lba[e] # TempAddr(e) => lba'[e] = lba[e]]_vars

\* C12 witness: the write of the second partition failed after the first
\* partition had been written and indexed.
C12_Witness ==
  \E a \in Allocators : \E v, w \in WKeys(a) :
    /\ v < w
    /\ sa.wpc[a][w] = "failed" /\ sa.wpc[a][v] = "done"
    /\ \A e \in SeqSet(sa.alloc_map[a][v]) : lba[e] = OolAddr(a, e)
    /\ epm.pc = "failed"

\* C16: once SegmentedAllocator::stop() has returned, with success or with a
\* failure, stop() has been called on every writer of the pool.
C16_StopsEveryWriter ==
  \A a \in Allocators :
    sa.stopPc[a] \in {"done", "failed"} =>
      \A w \in Writers : sa.wstop[a][w] # "none"

\* The extents of the call's batch in the order of the per-writer lists.
PositionIn(q, e) == CHOOSE i \in DOMAIN q : q[i] = e
InOrderOf(sub, q) ==
  \A i, j \in DOMAIN sub :
    i < j => /\ InSeq(sub[i], q) /\ InSeq(sub[j], q)
             /\ PositionIn(q, sub[i]) < PositionIn(q, sub[j])

\* C18: in alloc_ool_extents_paddr the per-writer lists are pairwise
\* disjoint, hold no extent twice, keep the input order, and together are
\* the batch; in delayed_alloc_or_ool_write every valid delayed extent is in
\* the inline list or in exactly one allocator group, never both, and an
\* invalid one in none; so an index entry is updated by at most one writer
\* and at most once in the pass.
C18_ExactPartition ==
  /\ \A a \in Allocators :
       /\ \A v, w \in Writers :
            v # w => SeqSet(sa.alloc_map[a][v]) \cap SeqSet(sa.alloc_map[a][w]) = {}
       /\ \A w \in Writers :
            /\ Cardinality(SeqSet(sa.alloc_map[a][w])) = Len(sa.alloc_map[a][w])
            /\ InOrderOf(sa.alloc_map[a][w], epm.alloc_map[a])
       /\ Called(a) =>
            UNION {SeqSet(sa.alloc_map[a][w]) : w \in Writers} =
              SeqSet(epm.alloc_map[a])
  /\ Classified =>
       /\ \A e \in Extents \ Invalid :
            Cardinality({a \in Allocators : e \in GroupExtents(a)})
              + (IF e \in InlineExtents THEN 1 ELSE 0) = 1
       /\ \A a \in Allocators :
            Cardinality(GroupExtents(a)) = Len(epm.alloc_map[a])
       /\ Cardinality(InlineExtents) = Len(epm.inline_list)
  /\ \A e \in Extents :
       /\ Cardinality(sa.updBy[e]) <= 1
       /\ updCalls[e] <= 1
       /\ e \in InlineExtents => sa.updBy[e] = {}
       /\ \A a \in Allocators : \A w \in Writers :
            <<a, w>> \in sa.updBy[e] => InSeq(e, sa.alloc_map[a][w])

\* C18 witness: a resolution has succeeded in which one allocator's batch of
\* two extents went to two writers and a third extent was resolved inline.
C18_Witness ==
  /\ epm.pc = "done"
  /\ Cardinality(InlineExtents) = 1
  /\ \E a \in Allocators :
       /\ Len(epm.alloc_map[a]) = 2
       /\ Cardinality(WKeys(a)) = 2
       /\ \A e \in GroupExtents(a) : Cardinality(sa.updBy[e]) = 1

\* =================================================================
\* Failure of an allocator group (checked under SpecEPM)
\* =================================================================
\* C20: when an allocator group's alloc_ool_extents_paddr has failed, the
\* resolution has failed with that failure and no update_mapping call was
\* made for an inline-classified extent, although the cache already moved
\* each of them to its inline address in the classification loop: the index
\* still maps their logical addresses to the temporary addresses.
C20_InlineLeftBehind ==
  epm.err = "alloc" =>
    /\ epm.pc = "failed"
    /\ epm.ipos = 1
    /\ \A e \in InlineExtents :
         /\ updCalls[e] = 0
         /\ paddr[e] = InlineAddr(e)
         /\ lba[e] = TempAddr(e)
         /\ lba[e] # paddr[e]

\* C20 witness: the second allocator group failed after the first had been
\* written, with an extent classified inline.
C20_Witness ==
  /\ epm.err = "alloc"
  /\ epm.completed # {}
  /\ InlineExtents # {}

====
